---- MODULE Spec2Model ----
(***************************************************************************)
(* Model of the Berlin weather widget (vmosharova/weather-widget).         *)
(*                                                                         *)
(*  - brightSkyService.ts : getCurrentWeather, getWeatherForecast and      *)
(*    their fallbacks, formatBerlinDay / formatBerlinTime                  *)
(*  - WeatherChart.tsx    : chartData (grouping, flagging, de-duplication) *)
(*  - weatherIcons.ts     : getWeatherIcon, getWeatherDescription          *)
(*  - WeatherWidget.tsx   : fetchWeatherData, the mount effect, the timer  *)
(*                                                                         *)
(* Instants are whole hours counted from Monday 00:00 UTC.  Temperatures   *)
(* are tenths of a degree Celsius.  A JavaScript value that may be a       *)
(* number, null, undefined or NaN is a record [tag, val].                  *)
(***************************************************************************)
EXTENDS Integers, Sequences, FiniteSets, TLC

VARIABLES
    now,            \* the wall clock, new Date()
    data,           \* WeatherChart: the data prop
    chartData,      \* WeatherChart: the memoised chartData
    chartPc,        \* WeatherChart: "request" while the forecast is fetched,
                    \* "props" before the memos ran, "memo" after them,
                    \* "rendered" after the body returned
    raw,            \* the weather array of the provider's answer behind data
    hourlyTicks,    \* WeatherChart: the memoised hourlyTicks
    dayTicks,       \* WeatherChart: the day-boundary marks, the memoised dayTicks
                    \* of the earlier version, the "Day start markers" of the
                    \* current one
    chartView,      \* WeatherChart: what the body returned ("" = nothing yet)
    closestTimestamp, \* WeatherChart: the "Now" pointer (Undefined = not computed)
    currentDay,     \* WeatherChart: the day label of now ("" = not computed)
    precip,         \* PrecipitationChart: what it rendered
    mounted,        \* WeatherWidget: "no" | "yes" | "gone"
    timer,          \* WeatherWidget: TRUE while the setInterval timer is installed
    currentWeather, \* WeatherWidget: useState currentWeather (NoWeather = null)
    forecast,       \* WeatherWidget: useState forecast
    loading,        \* WeatherWidget: useState loading
    error,          \* WeatherWidget: useState error ("" = null)
    cycles,         \* the pending invocations of fetchWeatherData, by id: the two
                    \* promises and how each request was answered ("" = not yet)
    started,        \* number of invocations of fetchWeatherData so far
    starts,         \* for each invocation so far, in order: what called it
                    \* ("mount" | "tick" | "refresh") and mounted at that moment
    slotCycle,      \* which invocation wrote currentWeather / forecast (0 = none)
    resumed,        \* the invocation that ran its continuation last: its id, how
                    \* its requests were answered, and mounted at that moment
    version,        \* WeatherWidget.tsx holds two versions: 1 (with the Refresh
                    \* button of CurrentWeather.tsx) and 2 (the current one)
    curCall,        \* the last getCurrentWeather() call made on its own
    fcCall          \* the last getWeatherForecast() call made on its own

vars == <<now, data, chartData, chartPc, raw, hourlyTicks, dayTicks, chartView,
          closestTimestamp, currentDay, precip, mounted, timer, currentWeather,
          forecast, loading, error, cycles, started, starts, slotCycle, resumed,
          version, curCall, fcCall>>

chartVars == <<data, chartData, chartPc, raw, hourlyTicks, dayTicks, chartView,
               closestTimestamp, currentDay, precip>>
widgetVars == <<mounted, timer, currentWeather, forecast, loading, error,
                cycles, started, starts, slotCycle, resumed, version>>
serviceVars == <<curCall, fcCall>>

----
(* Bounds of the model *)

MaxLen == 3
MaxStarted == 3
MaxNow == 1

----
(* JavaScript values *)

Num(n) == [tag |-> "number", val |-> n]
Null == [tag |-> "null", val |-> 0]
Undefined == [tag |-> "undefined", val |-> 0]
NaN == [tag |-> "NaN", val |-> 0]

IsNumber(x) == x.tag = "number"

\* ToNumber as applied by Math.max / Math.min to each argument
ToNumber(x) ==
    CASE x.tag = "number" -> x
      [] x.tag = "null" -> Num(0)
      [] OTHER -> NaN

\* x || d for a numeric field: null, undefined, NaN and 0 are falsy
OrDefault(x, d) ==
    IF x.tag = "number" /\ x.val # 0 THEN x ELSE d

\* s || d for a string field; the absent / null / empty string is ""
OrDefaultStr(s, d) == IF s = "" THEN d ELSE s

\* x ?? d: only null and undefined are replaced
NullishOr(x, d) == IF x.tag \in {"null", "undefined"} THEN d ELSE x

\* item.f, undefined when the object has no property f
Field(item, f) == IF f \in DOMAIN item THEN item[f] ELSE Undefined

\* { ...item, ...extra }
Spread(item, extra) ==
    [k \in DOMAIN item \cup DOMAIN extra |->
        IF k \in DOMAIN extra THEN extra[k] ELSE item[k]]

\* a === b
StrictEquals(a, b) ==
    /\ a.tag = b.tag
    /\ a.tag # "NaN"
    /\ a.val = b.val

SetMax(S) == CHOOSE m \in S : \A x \in S : x <= m
SetMin(S) == CHOOSE m \in S : \A x \in S : m <= x

\* Math.max(...xs) for a non-empty argument list
MathMax(xs) ==
    LET ns == {ToNumber(xs[i]) : i \in DOMAIN xs}
    IN  IF \E n \in ns : n.tag = "NaN" THEN NaN
        ELSE Num(SetMax({n.val : n \in ns}))

\* Math.min(...xs) for a non-empty argument list
MathMin(xs) ==
    LET ns == {ToNumber(xs[i]) : i \in DOMAIN xs}
    IN  IF \E n \in ns : n.tag = "NaN" THEN NaN
        ELSE Num(SetMin({n.val : n \in ns}))

----
(* brightSkyService.ts: time formatting *)

BerlinOffsetHours == 1

Weekdays == <<"Mon", "Tue", "Wed", "Thu", "Fri", "Sat", "Sun">>

\* formatInTimeZone(new Date(dateStr), TIMEZONE, "EEE")
formatBerlinDay(dateStr) ==
    Weekdays[(((dateStr + BerlinOffsetHours) \div 24) % 7) + 1]

\* parseInt(formatBerlinTime(dateStr, 'H'))
formatBerlinHour(dateStr) == (dateStr + BerlinOffsetHours) % 24

HourText ==
    <<"0", "1", "2", "3", "4", "5", "6", "7", "8", "9", "10", "11",
      "12", "13", "14", "15", "16", "17", "18", "19", "20", "21", "22", "23">>

\* formatInTimeZone(new Date(dateStr), TIMEZONE, formatStr) for 'H' and 'HH'
formatBerlinTime(dateStr, formatStr) ==
    LET h == (dateStr + BerlinOffsetHours) % 24
    IN  IF formatStr = "HH" /\ h < 10 THEN "0" \o HourText[h + 1]
        ELSE HourText[h + 1]

\* parseInt(s) of an hour text, with or without its leading zero
parseInt(s) ==
    CHOOSE h \in 0..23 : s \in {HourText[h + 1], "0" \o HourText[h + 1]}

----
(* WeatherChart.tsx: chartData *)

\* dayGroups[day]: the items of one day label, in input order
dayGroups(d, day) ==
    SelectSeq(d, LAMBDA item : formatBerlinDay(item.timestamp) = day)

temps(dayData) == [i \in DOMAIN dayData |-> dayData[i].temperature]

highTemp(d, day) == MathMax(temps(dayGroups(d, day)))
lowTemp(d, day) == MathMin(temps(dayGroups(d, day)))

daySection(hour) ==
    IF hour >= 5 /\ hour < 12 THEN "morning"
    ELSE IF hour >= 12 /\ hour < 18 THEN "afternoon"
    ELSE IF hour >= 18 /\ hour < 22 THEN "evening"
    ELSE "night"

enhancedData(d) ==
    [i \in DOMAIN d |->
        LET item == d[i]
            day == formatBerlinDay(item.timestamp)
            isHigh == StrictEquals(item.temperature, highTemp(d, day))
            isLow == StrictEquals(item.temperature, lowTemp(d, day))
        IN  Spread(item,
                [formattedDay |-> day,
                 daySection |-> daySection(formatBerlinHour(item.timestamp)),
                 isHighOrLow |-> isHigh \/ isLow,
                 isHigh |-> isHigh,
                 isLow |-> isLow])]

\* the Set seen after the first k points went through the map callback
seen(enh, k) ==
    {<<enh[j].formattedDay, "high">> : j \in {x \in 1..k : enh[x].isHigh}}
    \cup {<<enh[j].formattedDay, "low">> : j \in {x \in 1..k : enh[x].isLow}}

\* a chartData whose repeated highs and lows keep their flags
filteredNothing(enh) == enh

\* a de-duplication that removes the repeated points instead of unflagging them
filteredRemoving(enh) ==
    LET kept[i \in 0..Len(enh)] ==
            IF i = 0 THEN <<>>
            ELSE IF \/ enh[i].isHigh /\ <<enh[i].formattedDay, "high">> \in seen(enh, i - 1)
                    \/ enh[i].isLow /\ <<enh[i].formattedDay, "low">> \in seen(enh, i - 1)
                 THEN kept[i - 1]
                 ELSE Append(kept[i - 1], enh[i])
    IN  kept[Len(enh)]

filtered(enh) ==
    [i \in DOMAIN enh |->
        LET point == enh[i]
            before == seen(enh, i - 1)
            newIsHigh == point.isHigh /\ <<point.formattedDay, "high">> \notin before
            newIsLow == point.isLow /\ <<point.formattedDay, "low">> \notin before
        IN  [point EXCEPT !.isHigh = newIsHigh,
                          !.isLow = newIsLow,
                          !.isHighOrLow = newIsHigh \/ newIsLow]]

chartDataOf(d) == IF Len(d) = 0 THEN <<>> ELSE filtered(enhancedData(d))

----
(* WeatherChart.tsx: hourlyTicks, the early returns, the "Now" pointer *)

targetHours == {"00", "06", "12", "18"}

hourlyTicksOf(cd) ==
    IF Len(cd) = 0 THEN <<>>
    ELSE LET atTarget == SelectSeq(cd, LAMBDA item :
                             formatBerlinTime(item.timestamp, "HH") \in targetHours)
         IN  [k \in DOMAIN atTarget |-> atTarget[k].timestamp]

\* the "Day start markers": one line at each tick whose local hour is 00
dayStartMarkers(ticks) ==
    SelectSeq(ticks, LAMBDA tick : formatBerlinTime(tick, "HH") = "00")

\* the earlier version of the component: only the repeated lows are unflagged
filteredLows(enh) ==
    [i \in DOMAIN enh |->
        LET point == enh[i]
            before == {enh[j].formattedDay : j \in {x \in 1..(i - 1) : enh[x].isLow}}
        IN  IF point.isLow /\ point.formattedDay \in before
            THEN [point EXCEPT !.isLow = FALSE, !.isHighOrLow = point.isHigh]
            ELSE point]

chartDataEarlier(d) == IF Len(d) = 0 THEN <<>> ELSE filteredLows(enhancedData(d))

\* the earlier version's dayTicks: a tick where the day label changes
dayTicksOf(cd) ==
    IF Len(cd) = 0 THEN <<>>
    ELSE LET walk[i \in 0..Len(cd)] ==
                 IF i = 0 THEN [ticks |-> <<>>, currentDay |-> ""]
                 ELSE IF cd[i].formattedDay # walk[i - 1].currentDay
                      THEN [ticks |-> Append(walk[i - 1].ticks, cd[i].timestamp),
                            currentDay |-> cd[i].formattedDay]
                      ELSE walk[i - 1]
         IN  walk[Len(cd)].ticks

\* a body without the early return for an empty chartData
WeatherChartViewUnguarded(cd, isLoading) ==
    IF isLoading THEN "placeholder" ELSE "chart"

\* what the body returns: one of the two early returns, else the chart
WeatherChartView(cd, isLoading) ==
    IF isLoading THEN "placeholder"
    ELSE IF Len(cd) = 0 THEN "no-data"
    ELSE "chart"

\* a search for the nearest sample that is not restricted to the current day
todayDataAll(cd, day) == cd

\* chartData.filter(item => item.formattedDay === currentDay)
todayData(cd, day) == SelectSeq(cd, LAMBDA item : item.formattedDay = day)

Infinity == [tag |-> "Infinity", val |-> 0]

Abs(x) == IF x < 0 THEN -x ELSE x

\* a pointer that is the last sample of the day whatever its distance to now
closestTimestampOfDayEnd(cd, at) ==
    LET td == todayData(cd, formatBerlinDay(at))
    IN  IF Len(td) = 0 THEN at ELSE td[Len(td)].timestamp

\* a search that replaces the candidate on an equal difference
closestTimestampOfLast(cd, at) ==
    LET td == todayData(cd, formatBerlinDay(at))
        scan[i \in 0..Len(td)] ==
            IF i = 0 THEN [minDiff |-> Infinity, closestTimestamp |-> at]
            ELSE LET prev == scan[i - 1]
                     diff == Abs(td[i].timestamp - at)
                 IN  IF prev.minDiff.tag = "Infinity" \/ diff <= prev.minDiff.val
                     THEN [minDiff |-> Num(diff),
                           closestTimestamp |-> td[i].timestamp]
                     ELSE prev
    IN  scan[Len(td)].closestTimestamp

\* closestTimestamp after the forEach over todayData, with now = at
closestTimestampOf(cd, at) ==
    LET td == todayData(cd, formatBerlinDay(at))
        scan[i \in 0..Len(td)] ==
            IF i = 0 THEN [minDiff |-> Infinity, closestTimestamp |-> at]
            ELSE LET prev == scan[i - 1]
                     diff == Abs(td[i].timestamp - at)
                 IN  IF prev.minDiff.tag = "Infinity" \/ diff < prev.minDiff.val
                     THEN [minDiff |-> Num(diff),
                           closestTimestamp |-> td[i].timestamp]
                     ELSE prev
    IN  scan[Len(td)].closestTimestamp

----
(* PrecipitationChart.tsx                                                  *)
(* Probabilities are whole percent, amounts are tenths of a millimetre,    *)
(* heights are tenths of a pixel; indices are the 0-based array indices.   *)

\* x > n and x >= n for a number or NaN
Gt(x, n) == x.tag = "number" /\ x.val > n
Ge(x, n) == x.tag = "number" /\ x.val >= n

\* (x * mul) / div, NaN when x is not a number
Scale(x, mul, div) ==
    IF ToNumber(x).tag = "number" THEN Num((ToNumber(x).val * mul) \div div)
    ELSE NaN

\* blocks of three hours, as the comment above the icon row announces
blockStartHour3(hour) == (hour \div 3) * 3

blockStartHour(hour) == (hour \div 4) * 4

\* the earlier version of the component: Math.floor(hour / 6) * 6
blockStartHour6(hour) == (hour \div 6) * 6

\* `${day}-${blockStartHour}`
blockKey(item) ==
    formatBerlinDay(item.timestamp) \o "-"
    \o HourText[blockStartHour(parseInt(formatBerlinTime(item.timestamp, "H"))) + 1]

\* a comparison that also counts the sample under the pointer as past
isPastInclusive(item, curDay, closest) ==
    /\ formatBerlinDay(item.timestamp) = curDay
    /\ item.timestamp <= closest

\* day === currentDay && new Date(item.timestamp) < new Date(closestTimestamp)
isPast(item, curDay, closest) ==
    /\ formatBerlinDay(item.timestamp) = curDay
    /\ item.timestamp < closest

precipActive(item, curDay, closest) ==
    LET past == isPast(item, curDay, closest)
    IN  \/ past /\ Gt(NullishOr(Field(item, "precipitation"), Num(0)), 0)
        \/ ~past /\ Ge(NullishOr(Field(item, "precipitationProbability"), Num(0)), 5)

\* the Map blocks after the forEach, as its entries in insertion order
blocksOf(d, curDay, closest) ==
    LET acc[i \in 0..Len(d)] ==
            IF i = 0 THEN <<>>
            ELSE LET key == blockKey(d[i])
                     before == acc[i - 1]
                     has == \E b \in DOMAIN before : before[b].key = key
                     withKey == IF has THEN before
                                ELSE Append(before, [key |-> key, indices |-> <<>>,
                                                     hasPrecip |-> FALSE])
                     b == CHOOSE x \in DOMAIN withKey : withKey[x].key = key
                 IN  [withKey EXCEPT
                         ![b].indices = Append(@, i - 1),
                         ![b].hasPrecip = @ \/ precipActive(d[i], curDay, closest)]
    IN  acc[Len(d)]

\* an anchor at the block's first sample
firstIdx(indices) == indices[1]

\* info.indices[Math.floor(info.indices.length / 2)]
middleIdx(indices) == indices[(Len(indices) \div 2) + 1]

\* the icons pushed by blocks.forEach
iconsOf(blocks, totalPoints) ==
    LET acc[i \in 0..Len(blocks)] ==
            IF i = 0 THEN <<>>
            ELSE LET info == blocks[i]
                 IN  IF ~info.hasPrecip \/ Len(info.indices) = 0 THEN acc[i - 1]
                     ELSE Append(acc[i - 1],
                             [middleIdx |-> middleIdx(info.indices),
                              leftPosition |->
                                  IF totalPoints > 0
                                  THEN [num |-> middleIdx(info.indices) * 100,
                                        den |-> totalPoints]
                                  ELSE [num |-> 0, den |-> 1]])
    IN  acc[Len(blocks)]

showPastBar(item, past) ==
    past /\ Gt(NullishOr(Field(item, "precipitation"), Num(0)), 0)

\* a threshold test that leaves out the threshold itself
showFutureBarStrict(item, past) ==
    ~past /\ Gt(NullishOr(Field(item, "precipitationProbability"), Num(0)), 5)

showFutureBar(item, past) ==
    ~past /\ Ge(NullishOr(Field(item, "precipitationProbability"), Num(0)), 5)

\* the conditions whose lower-case text includes 'snow' or 'sleet'
isSnow(condition) ==
    OrDefaultStr(condition, "") \in {"snow", "Snow", "sleet", "Sleet"}

MAX_MM == 5

\* a height without the upper clamp of the past branch
heightPxUnclamped(item, showPast) ==
    IF showPast
    THEN MathMax(<<Num(20),
                   Scale(OrDefault(Field(item, "precipitation"), Num(0)),
                         300, 10 * MAX_MM)>>)
    ELSE MathMax(<<Num(20),
                   Scale(Field(item, "precipitationProbability"), 300, 100)>>)

heightPx(item, showPast) ==
    IF showPast
    THEN MathMax(<<Num(20),
                   MathMin(<<Num(300),
                             Scale(OrDefault(Field(item, "precipitation"), Num(0)),
                                   300, 10 * MAX_MM)>>)>>)
    ELSE MathMax(<<Num(20),
                   Scale(Field(item, "precipitationProbability"), 300, 100)>>)

snowflakeCount(item, snow, showPast, showFuture) ==
    IF ~(snow /\ (showPast \/ showFuture)) THEN 0
    ELSE IF showPast
    THEN LET mm == OrDefault(Field(item, "precipitation"), Num(0))
         IN  IF Gt(mm, 30) THEN 3 ELSE IF Gt(mm, 10) THEN 2 ELSE 1
    ELSE LET p == OrDefault(Field(item, "precipitationProbability"), Num(0))
         IN  IF Gt(p, 66) THEN 3 ELSE IF Gt(p, 33) THEN 2 ELSE 1

\* what data.map renders for one sample
barOf(item, curDay, closest) ==
    LET past == isPast(item, curDay, closest)
        showPast == showPastBar(item, past)
        showFuture == showFutureBar(item, past)
        snow == isSnow(item.condition)
    IN  [isPast |-> past,
         showPastBar |-> showPast,
         showFutureBar |-> showFuture,
         isSnow |-> snow,
         heightPx |-> heightPx(item, showPast),
         snowflakeCount |-> snowflakeCount(item, snow, showPast, showFuture),
         element |-> IF ~(showPast \/ showFuture) THEN "none"
                     ELSE IF snow THEN "snowflakes"
                     ELSE "bar"]

NotRendered == [view |-> "none"]

PrecipitationChart(d, isLoading, closest, curDay) ==
    IF isLoading THEN [view |-> "placeholder"]
    ELSE IF Len(d) = 0 THEN [view |-> "no-data"]
    ELSE LET totalPoints == IF Len(d) > 1 THEN Len(d) - 1 ELSE 0
             blocks == blocksOf(d, curDay, closest)
         IN  [view |-> "chart",
              blocks |-> blocks,
              icons |-> iconsOf(blocks, totalPoints),
              bars |-> [i \in DOMAIN d |-> barOf(d[i], curDay, closest)]]

----
(* brightSkyService.ts: the two fetch operations *)

Fulfilled(v) == [state |-> "fulfilled", value |-> v]

\* what axios.get settles with: a transport error or a non-2xx status rejects,
\* anything else resolves with response.data = body
HttpFailure(kind) == [kind |-> kind]
HttpOk(body) == [kind |-> "ok", body |-> body]
AxiosRejects(http) == http.kind \in {"network_error", "http_error"}

\* response.data without a weather field, and no response.data at all
NoWeatherField == [hasWeather |-> FALSE]
NoData == [tag |-> "null"]
WithWeather(w) == [hasWeather |-> TRUE, weather |-> w]

HasWeather(body) == body # NoData /\ body.hasWeather

createFallbackCurrentWeather(at) ==
    [temperature |-> Num(150),
     condition |-> "clear-day",
     icon |-> "clear-day",
     precipitation |-> Num(0),
     precipitationProbability |-> Num(0),
     precipitation30min |-> Num(0),
     precipitation60min |-> Num(0),
     cloudCover |-> Num(0),
     timestamp |-> at]

\* a getCurrentWeather() whose catch block rethrows instead of returning the
\* fallback object
getCurrentWeatherRethrowing(http, at) ==
    IF AxiosRejects(http)
    THEN [state |-> "rejected", value |-> [tag |-> "null"]]
    ELSE Fulfilled(createFallbackCurrentWeather(at))

\* getCurrentWeather() when axios settles with http at instant at
getCurrentWeather(http, at) ==
    IF AxiosRejects(http)
    THEN Fulfilled(createFallbackCurrentWeather(at))
    ELSE IF ~HasWeather(http.body)
    THEN Fulfilled(createFallbackCurrentWeather(at))
    ELSE LET weatherData == http.body.weather
         IN  Fulfilled(
                [temperature |-> weatherData.temperature,
                 condition |-> OrDefaultStr(weatherData.condition, "clear-day"),
                 icon |-> OrDefaultStr(weatherData.icon, "clear-day"),
                 precipitation |-> OrDefault(weatherData.precipitation_10, Num(0)),
                 precipitationProbability |->
                     OrDefault(weatherData.precipitation_60, Num(0)),
                 precipitation30min |-> OrDefault(weatherData.precipitation_30, Num(0)),
                 precipitation60min |-> OrDefault(weatherData.precipitation_60, Num(0)),
                 cloudCover |-> OrDefault(weatherData.cloud_cover, Num(0)),
                 timestamp |-> weatherData.timestamp])

FallbackHours == 24

\* round(10 * (15 + Math.sin(i / 4) * 5)) for i = 0 .. 23
FallbackTemps ==
    <<150, 162, 174, 184, 192, 197, 200, 199, 195, 189, 180, 169,
      157, 145, 132, 121, 112, 105, 101, 100, 102, 107, 115, 125>>

generateFallbackForecast(at) ==
    [k \in 1..FallbackHours |->
        [timestamp |-> at + (k - 1),
         temperature |-> Num(FallbackTemps[k]),
         condition |-> "clear-day",
         precipitationProbability |-> Num(0)]]

\* a getWeatherForecast() whose catch block rethrows instead of returning the
\* fallback forecast
getWeatherForecastRethrowing(http, at) ==
    IF AxiosRejects(http)
    THEN [state |-> "rejected", value |-> <<>>]
    ELSE Fulfilled(generateFallbackForecast(at))

\* getWeatherForecast() when axios settles with http at instant at
getWeatherForecast(http, at) ==
    IF AxiosRejects(http)
    THEN Fulfilled(generateFallbackForecast(at))
    ELSE IF ~HasWeather(http.body) \/ Len(http.body.weather) = 0
    THEN Fulfilled(generateFallbackForecast(at))
    ELSE Fulfilled(
            [k \in DOMAIN http.body.weather |->
                LET item == http.body.weather[k]
                IN  [timestamp |-> item.timestamp,
                     temperature |-> item.temperature,
                     condition |-> OrDefaultStr(item.condition, "clear-day"),
                     precipitationProbability |->
                         OrDefault(item.precipitation_probability, Num(0))]])

----
(* weatherIcons.ts *)

conditionMap ==
    [c \in {"clear-day", "clear-night", "partly-cloudy-day", "partly-cloudy-night",
            "cloudy", "fog", "rain", "sleet", "snow", "wind", "thunderstorm",
            "drizzle", "some-error"} |->
        CASE c \in {"clear-day", "clear-night"} -> "Sun"
          [] c \in {"partly-cloudy-day", "partly-cloudy-night"} -> "CloudSun"
          [] c \in {"cloudy", "wind"} -> "Cloud"
          [] c = "fog" -> "CloudFog"
          [] c \in {"rain", "sleet"} -> "CloudRain"
          [] c = "snow" -> "CloudSnow"
          [] c = "thunderstorm" -> "CloudLightning"
          [] c = "drizzle" -> "CloudDrizzle"
          [] c = "some-error" -> "TriangleAlert"]

\* condition is "" for undefined
getWeatherIcon(condition) ==
    IF condition = "" THEN "Sun"
    ELSE IF condition \in DOMAIN conditionMap THEN conditionMap[condition]
    ELSE "Sun"

descriptions ==
    [c \in DOMAIN conditionMap |->
        CASE c \in {"clear-day", "clear-night"} -> "Clear"
          [] c \in {"partly-cloudy-day", "partly-cloudy-night"} -> "Partly Cloudy"
          [] c = "cloudy" -> "Cloudy"
          [] c = "fog" -> "Foggy"
          [] c = "rain" -> "Rain"
          [] c = "sleet" -> "Sleet"
          [] c = "snow" -> "Snow"
          [] c = "wind" -> "Windy"
          [] c = "thunderstorm" -> "Thunderstorm"
          [] c = "drizzle" -> "Drizzle"
          [] c = "some-error" -> "Something went wrong! Look into the console"]

\* condition.replace('-', ' ').replace(/\b\w/g, l => l.toUpperCase()) for the
\* provider's codes that the table does not hold
TitleCase(condition) ==
    CASE condition = "hail" -> "Hail"
      [] condition = "dry" -> "Dry"

getWeatherDescription(condition) ==
    IF condition = "" THEN "Unknown"
    ELSE IF condition \in DOMAIN descriptions THEN descriptions[condition]
    ELSE TitleCase(condition)

----
(* Inputs: what the provider may answer *)

RainNow ==
    [timestamp |-> 22, temperature |-> Num(83), condition |-> "rain",
     icon |-> "rain", precipitation_10 |-> Num(2), precipitation_30 |-> Num(5),
     precipitation_60 |-> Num(9), cloud_cover |-> Num(100)]

\* a genuine clear sky at zero degrees
ClearNow ==
    [timestamp |-> 22, temperature |-> Num(0), condition |-> "dry",
     icon |-> "clear-day", precipitation_10 |-> Num(0), precipitation_30 |-> Num(0),
     precipitation_60 |-> Num(0), cloud_cover |-> Num(0)]

\* a weather object that lacks temperature, condition and icon
IncompleteNow ==
    [timestamp |-> 22, temperature |-> Undefined, condition |-> "",
     icon |-> "", precipitation_10 |-> Null, precipitation_30 |-> Null,
     precipitation_60 |-> Null, cloud_cover |-> Null]

CurrentPayloads == {RainNow, ClearNow, IncompleteNow}

RawItem(t, temp, cond, prob) ==
    [timestamp |-> t, temperature |-> temp, condition |-> cond,
     precipitation_probability |-> prob, precipitation |-> Num(0)]

RainSeries ==
    <<RawItem(22, Num(83), "rain", Num(80)),
      RawItem(23, Num(71), "rain", Num(5)),
      RawItem(24, Num(71), "dry", Num(4))>>

\* items that lack temperature, condition and precipitation_probability
IncompleteSeries ==
    <<RawItem(22, Null, "", Null),
      RawItem(23, Undefined, "", Null)>>

ForecastPayloads == {RainSeries, IncompleteSeries}

HttpFailures == {HttpFailure("network_error"), HttpFailure("http_error")}

CurrentHttp ==
    HttpFailures
    \cup {HttpOk(NoData), HttpOk(NoWeatherField)}
    \cup {HttpOk(WithWeather(w)) : w \in CurrentPayloads}

ForecastHttp ==
    HttpFailures
    \cup {HttpOk(NoData), HttpOk(NoWeatherField), HttpOk(WithWeather(<<>>))}
    \cup {HttpOk(WithWeather(w)) : w \in ForecastPayloads}

\* the answers the widget specification draws from
WidgetCurrentHttp == {HttpFailure("network_error"), HttpOk(WithWeather(RainNow))}
WidgetForecastHttp == {HttpFailure("network_error"), HttpOk(WithWeather(RainSeries))}

----
(* WeatherWidget.tsx *)

NoWeather == [tag |-> "null"]
Pending(empty) == [state |-> "pending", value |-> empty]

\* a join that settles with the first call that does
PromiseAllRace(c) ==
    IF c.cur.state = "rejected" \/ c.fc.state = "rejected" THEN "rejected"
    ELSE IF c.cur.state = "fulfilled" \/ c.fc.state = "fulfilled" THEN "fulfilled"
    ELSE "pending"

\* Promise.all([getCurrentWeather(), getWeatherForecast()])
PromiseAll(c) ==
    IF c.cur.state = "rejected" \/ c.fc.state = "rejected" THEN "rejected"
    ELSE IF c.cur.state = "fulfilled" /\ c.fc.state = "fulfilled" THEN "fulfilled"
    ELSE "pending"

\* fetchWeatherData up to the await: setLoading(true), setError(null) and the
\* two requests go out
fetchWeatherData ==
    /\ started < MaxStarted
    /\ started' = started + 1
    /\ cycles' = [c \in DOMAIN cycles \cup {started + 1} |->
                    IF c = started + 1
                    THEN [cur |-> Pending(NoWeather), fc |-> Pending(<<>>),
                          curHttp |-> "", fcHttp |-> ""]
                    ELSE cycles[c]]
    /\ loading' = TRUE
    /\ error' = ""

\* useEffect on mount: fetchWeatherData(); setInterval(fetchWeatherData, ...)
Mount ==
    /\ mounted = "no"
    /\ mounted' = "yes"
    /\ timer' = TRUE
    /\ fetchWeatherData
    /\ starts' = Append(starts, [by |-> "mount", mounted |-> mounted'])
    /\ UNCHANGED <<now, chartVars, serviceVars, version, currentWeather, forecast, slotCycle, resumed>>

\* the interval elapses
TimerTick ==
    /\ timer
    /\ fetchWeatherData
    /\ starts' = Append(starts, [by |-> "tick", mounted |-> mounted])
    /\ UNCHANGED <<now, chartVars, serviceVars, version, mounted, timer, currentWeather, forecast, slotCycle, resumed>>

\* a cleanup that leaves the interval installed
UnmountKeepingTimer ==
    /\ mounted = "yes"
    /\ mounted' = "gone"
    /\ UNCHANGED <<now, chartVars, serviceVars, version, timer, currentWeather, forecast,
                   loading, error, cycles, started, starts, slotCycle, resumed>>

\* the effect's cleanup: clearInterval(intervalId)
Unmount ==
    /\ mounted = "yes"
    /\ mounted' = "gone"
    /\ timer' = FALSE
    /\ UNCHANGED <<now, chartVars, serviceVars, version, currentWeather, forecast, loading, error,
                   cycles, started, starts, slotCycle, resumed>>

\* the current_weather request of invocation c settles
CurrentSettles(c, http) ==
    /\ c \in DOMAIN cycles
    /\ cycles[c].cur.state = "pending"
    /\ cycles' = [cycles EXCEPT ![c].cur = getCurrentWeather(http, now),
                                ![c].curHttp = http.kind]
    /\ UNCHANGED <<now, chartVars, serviceVars, version, mounted, timer, currentWeather, forecast,
                   loading, error, started, starts, slotCycle, resumed>>

\* the weather request of invocation c settles
ForecastSettles(c, http) ==
    /\ c \in DOMAIN cycles
    /\ cycles[c].fc.state = "pending"
    /\ cycles' = [cycles EXCEPT ![c].fc = getWeatherForecast(http, now),
                                ![c].fcHttp = http.kind]
    /\ UNCHANGED <<now, chartVars, serviceVars, version, mounted, timer, currentWeather, forecast,
                   loading, error, started, starts, slotCycle, resumed>>

\* a continuation that clears loading without having written the two values
ResumeWithoutData(c) ==
    /\ c \in DOMAIN cycles
    /\ PromiseAll(cycles[c]) # "pending"
    /\ loading' = FALSE
    /\ resumed' = [cycle |-> c, curHttp |-> cycles[c].curHttp,
                   fcHttp |-> cycles[c].fcHttp, mounted |-> mounted]
    /\ cycles' = [k \in DOMAIN cycles \ {c} |-> cycles[k]]
    /\ UNCHANGED <<now, chartVars, serviceVars, version, mounted, timer, started,
                   starts, currentWeather, forecast, slotCycle, error>>

\* fetchWeatherData after the await: the setters, or the catch branch, and
\* the finally branch
Resume(c) ==
    /\ c \in DOMAIN cycles
    /\ PromiseAll(cycles[c]) # "pending"
    /\ IF PromiseAll(cycles[c]) = "fulfilled"
       THEN /\ currentWeather' = cycles[c].cur.value
            /\ forecast' = cycles[c].fc.value
            /\ slotCycle' =
                 [currentWeather |-> IF cycles[c].cur.state = "fulfilled" THEN c ELSE 0,
                  forecast |-> IF cycles[c].fc.state = "fulfilled" THEN c ELSE 0]
            /\ error' = error
       ELSE /\ error' = "Failed to fetch weather data. Please try again later."
            /\ UNCHANGED <<currentWeather, forecast, slotCycle>>
    /\ loading' = FALSE
    /\ resumed' = [cycle |-> c, curHttp |-> cycles[c].curHttp,
                   fcHttp |-> cycles[c].fcHttp, mounted |-> mounted]
    /\ cycles' = [k \in DOMAIN cycles \ {c} |-> cycles[k]]
    /\ UNCHANGED <<now, chartVars, serviceVars, version, mounted, timer, started,
                   starts>>

\* the Refresh button of CurrentWeather.tsx (version 1), rendered when the
\* component is not in its loading branch: onClick = fetchWeatherData
ManualRefresh ==
    /\ version = 1
    /\ mounted = "yes"
    /\ ~loading
    /\ fetchWeatherData
    /\ starts' = Append(starts, [by |-> "refresh", mounted |-> mounted])
    /\ UNCHANGED <<now, chartVars, serviceVars, version, mounted, timer,
                   currentWeather, forecast, slotCycle, resumed>>

\* what WeatherChart renders for the props (forecast, loading)
View ==
    IF loading THEN "placeholder"
    ELSE IF Len(chartDataOf(forecast)) = 0 THEN "no-data"
    ELSE "chart"

\* the icon of the current-conditions display, "" when it is not rendered:
\* version 2 draws it inside WeatherChart, version 1 in CurrentWeather
ShownIcon ==
    IF version = 1
    THEN IF loading THEN ""
         ELSE getWeatherIcon(IF currentWeather = NoWeather THEN ""
                             ELSE currentWeather.icon)
    ELSE IF View = "chart" /\ currentWeather # NoWeather
         THEN getWeatherIcon(OrDefaultStr(currentWeather.icon, "clear-day"))
         ELSE ""

ShownDescription ==
    IF version = 1
    THEN IF loading THEN ""
         ELSE getWeatherDescription(IF currentWeather = NoWeather THEN ""
                                    ELSE currentWeather.icon)
    ELSE IF View = "chart" /\ currentWeather # NoWeather
         THEN getWeatherDescription(currentWeather.icon)
         ELSE ""

----
(* The service operations called on their own *)

Idle == [state |-> "idle"]

CallCurrent(http) ==
    /\ curCall' = [http |-> http, at |-> now, result |-> getCurrentWeather(http, now)]
    /\ UNCHANGED <<now, chartVars, widgetVars, fcCall>>

CallForecast(http) ==
    /\ fcCall' = [http |-> http, at |-> now, result |-> getWeatherForecast(http, now)]
    /\ UNCHANGED <<now, chartVars, widgetVars, curCall>>

\* time passes
Advance ==
    /\ now < MaxNow
    /\ now' = now + 1
    /\ UNCHANGED <<chartVars, widgetVars, serviceVars>>

----
(* WeatherChart on its own: the props are drawn from the bounded inputs *)

SampleTimes == 21..26
TempChoices == {Num(-50), Num(70), Null, Undefined}

ForecastItem(t, temp) ==
    [timestamp |-> t, temperature |-> temp, condition |-> "rain",
     precipitationProbability |-> Num(0)]

\* the samples at the instants T with temperatures f, by ascending timestamp
RECURSIVE Ascending(_, _)
Ascending(T, f) ==
    IF T = {} THEN <<>>
    ELSE LET t == SetMax(T)
         IN  Append(Ascending(T \ {t}, f), ForecastItem(t, f[t]))

ChartInputs ==
    UNION {{Ascending(T, f) : f \in [T -> TempChoices]} :
              T \in {S \in SUBSET SampleTimes : Cardinality(S) <= MaxLen}}

\* the instants at which the chart is rendered: Mon 23:00, Tue 02:00,
\* Tue 04:00 and Wed 03:00 Berlin time
ChartNows == {22, 25, 27, 50}

\* what a sample of the precipitation row carries besides its timestamp
PrecipChoices ==
    {[condition |-> "rain", precipitationProbability |-> Num(0), precipitation |-> Undefined],
     [condition |-> "rain", precipitationProbability |-> Num(4), precipitation |-> Num(0)],
     [condition |-> "rain", precipitationProbability |-> Num(5), precipitation |-> Num(1)],
     [condition |-> "rain", precipitationProbability |-> Num(100), precipitation |-> Num(20)],
     [condition |-> "snow", precipitationProbability |-> Num(50), precipitation |-> Num(50)],
     [condition |-> "rain", precipitationProbability |-> Num(4), precipitation |-> Num(80)]}

\* local hours 22 and 23 of Monday, 0, 3 and 4 of Tuesday
PrecipTimes == {21, 22, 23, 26, 27}

\* a sample handed to the charts with an observed amount
PrecipItem(t, c) ==
    [timestamp |-> t, temperature |-> Num(70), condition |-> c.condition,
     precipitationProbability |-> c.precipitationProbability,
     precipitation |-> c.precipitation]

RECURSIVE AscendingPrecip(_, _)
AscendingPrecip(T, f) ==
    IF T = {} THEN <<>>
    ELSE LET t == SetMax(T)
         IN  Append(AscendingPrecip(T \ {t}, f), PrecipItem(t, f[t]))

PrecipInputs ==
    UNION {{AscendingPrecip(T, f) : f \in [T -> PrecipChoices]} :
              T \in {S \in SUBSET PrecipTimes : Cardinality(S) <= MaxLen}}

\* an hourly record of the provider's answer
RawSample(t, c) ==
    [timestamp |-> t, temperature |-> Num(70), condition |-> c.condition,
     precipitation_probability |-> c.precipitationProbability,
     precipitation |-> c.precipitation]

RECURSIVE AscendingRaw(_, _)
AscendingRaw(T, f) ==
    IF T = {} THEN <<>>
    ELSE LET t == SetMax(T)
         IN  Append(AscendingRaw(T \ {t}, f), RawSample(t, f[t]))

\* the non-empty answers
RawInputs ==
    UNION {{AscendingRaw(T, f) : f \in [T -> PrecipChoices]} :
              T \in {S \in SUBSET PrecipTimes : Cardinality(S) \in 1..MaxLen}}

\* getWeatherForecast() resolves and the widget hands the result to the chart
FetchForecast ==
    /\ chartPc = "request"
    /\ data' = getWeatherForecast(HttpOk(WithWeather(raw)), now).value
    /\ chartPc' = "props"
    /\ UNCHANGED <<now, chartData, raw, hourlyTicks, dayTicks, chartView,
                   closestTimestamp, currentDay, precip, widgetVars, serviceVars>>

\* the two useMemo hooks: chartData, then hourlyTicks
Memo ==
    /\ chartPc = "props"
    /\ chartData' = chartDataOf(data)
    /\ hourlyTicks' = hourlyTicksOf(chartData')
    /\ chartPc' = "memo"
    /\ UNCHANGED <<now, data, raw, dayTicks, chartView, closestTimestamp,
                   currentDay, precip, widgetVars, serviceVars>>

\* the rest of the body: the early returns, the pointer, PrecipitationChart
Render(isLoading) ==
    /\ chartPc = "memo"
    /\ chartPc' = "rendered"
    /\ chartView' = WeatherChartView(chartData, isLoading)
    /\ IF WeatherChartView(chartData, isLoading) = "chart"
       THEN /\ currentDay' = formatBerlinDay(now)
            /\ closestTimestamp' = Num(closestTimestampOf(chartData, now))
            /\ precip' = PrecipitationChart(chartData, isLoading,
                                            closestTimestamp'.val, currentDay')
            /\ dayTicks' = dayStartMarkers(hourlyTicks)
       ELSE UNCHANGED <<currentDay, closestTimestamp, precip, dayTicks>>
    /\ UNCHANGED <<now, data, chartData, raw, hourlyTicks, widgetVars, serviceVars>>

InitChartIdle ==
    /\ data = <<>>
    /\ chartData = <<>>
    /\ chartPc = "idle"
    /\ raw = <<>>
    /\ hourlyTicks = <<>>
    /\ dayTicks = <<>>
    /\ chartView = ""
    /\ closestTimestamp = Undefined
    /\ currentDay = ""
    /\ precip = NotRendered

InitServiceIdle == curCall = Idle /\ fcCall = Idle

InitWidget ==
    /\ mounted = "no"
    /\ timer = FALSE
    /\ currentWeather = NoWeather
    /\ forecast = <<>>
    /\ loading = TRUE
    /\ error = ""
    /\ cycles = <<>>
    /\ started = 0
    /\ starts = <<>>
    /\ slotCycle = [currentWeather |-> 0, forecast |-> 0]
    /\ resumed = [cycle |-> 0, curHttp |-> "", fcHttp |-> "", mounted |-> ""]

----
(* Spec: the widget *)

Init ==
    /\ now = 0
    /\ InitChartIdle
    /\ InitServiceIdle
    /\ InitWidget
    /\ version \in {1, 2}

Next ==
    \/ Mount
    \/ TimerTick
    \/ ManualRefresh
    \/ Unmount
    \/ \E c \in 1..MaxStarted : \E http \in WidgetCurrentHttp : CurrentSettles(c, http)
    \/ \E c \in 1..MaxStarted : \E http \in WidgetForecastHttp : ForecastSettles(c, http)
    \/ \E c \in 1..MaxStarted : Resume(c)

Spec == Init /\ [][Next]_vars

\* SpecCompletion: the widget when every request that went out is answered
\* (the provider or the transport settles it) and the event loop runs the
\* continuation of every settled Promise.all
Completion ==
    \A c \in 1..MaxStarted :
        /\ WF_vars(\E http \in WidgetCurrentHttp : CurrentSettles(c, http))
        /\ WF_vars(\E http \in WidgetForecastHttp : ForecastSettles(c, http))
        /\ WF_vars(Resume(c))

SpecCompletion == Init /\ [][Next]_vars /\ Completion

----
(* SpecService: getCurrentWeather and getWeatherForecast for every answer *)

InitService ==
    /\ now = 0
    /\ InitChartIdle
    /\ InitServiceIdle
    /\ InitWidget
    /\ version = 2

NextService ==
    \/ Advance
    \/ \E http \in CurrentHttp : CallCurrent(http)
    \/ \E http \in ForecastHttp : CallForecast(http)

SpecService == InitService /\ [][NextService]_vars

----
(* SpecChart: chartData for every bounded forecast *)

InitRender ==
    /\ chartData = <<>>
    /\ hourlyTicks = <<>>
    /\ dayTicks = <<>>
    /\ chartView = ""
    /\ closestTimestamp = Undefined
    /\ currentDay = ""
    /\ precip = NotRendered
    /\ InitServiceIdle
    /\ InitWidget
    /\ version = 2

InitChart ==
    /\ now \in ChartNows
    /\ data \in ChartInputs
    /\ raw = <<>>
    /\ chartPc = "props"
    /\ InitRender

NextChart ==
    \/ Memo
    \/ \E isLoading \in BOOLEAN : Render(isLoading)

SpecChart == InitChart /\ [][NextChart]_vars

\* the earlier version of the component: its two useMemo hooks, chartData and
\* dayTicks
MemoDayTicks ==
    /\ chartPc = "props"
    /\ chartData' = chartDataEarlier(data)
    /\ dayTicks' = dayTicksOf(chartData')
    /\ chartPc' = "memo-earlier"
    /\ UNCHANGED <<now, data, raw, hourlyTicks, chartView, closestTimestamp,
                   currentDay, precip, widgetVars, serviceVars>>

SpecDayTicks == InitChart /\ [][MemoDayTicks]_vars

----
(* SpecPrecip: the precipitation row for samples that carry an amount *)

InitPrecip ==
    /\ now \in ChartNows
    /\ data \in PrecipInputs
    /\ raw = <<>>
    /\ chartPc = "props"
    /\ InitRender

SpecPrecip == InitPrecip /\ [][NextChart]_vars

----
(* SpecForecastFlow: from the provider's answer to the rendered charts *)

InitForecastFlow ==
    /\ now \in ChartNows
    /\ raw \in RawInputs
    /\ data = <<>>
    /\ chartPc = "request"
    /\ InitRender

NextForecastFlow ==
    \/ FetchForecast
    \/ Memo
    \/ \E isLoading \in BOOLEAN : Render(isLoading)

SpecForecastFlow == InitForecastFlow /\ [][NextForecastFlow]_vars

----
(* Claims about chartData (SpecChart) *)

DayLabels(d) == {formatBerlinDay(d[i].timestamp) : i \in DOMAIN d}
IndicesOfDay(d, day) == {i \in DOMAIN d : formatBerlinDay(d[i].timestamp) = day}

\* the non-null temperatures of a day's group
NonNullTemps(d, day) ==
    {d[i].temperature.val : i \in {j \in IndicesOfDay(d, day) : IsNumber(d[j].temperature)}}

HighsOfDay(day) == {i \in IndicesOfDay(data, day) : chartData[i].isHigh}
LowsOfDay(day) == {i \in IndicesOfDay(data, day) : chartData[i].isLow}

\* C1: every local day that has a sample with a non-null temperature has,
\* after flagging and de-duplication, exactly one isHigh sample and exactly
\* one isLow sample.
C1_ExtremaUniqueness ==
    chartPc = "memo" =>
        \A day \in DayLabels(data) :
            NonNullTemps(data, day) # {} =>
                /\ Cardinality(HighsOfDay(day)) = 1
                /\ Cardinality(LowsOfDay(day)) = 1

\* the samples of a day whose temperature is the given non-null value
TiedAt(d, day, v) ==
    {i \in IndicesOfDay(d, day) : d[i].temperature = Num(v)}

\* C2: of the samples of a day that have the day's maximum temperature only
\* the earliest keeps isHigh, every later one has isHigh = FALSE; likewise for
\* the minimum and isLow.
C2_TieBreakFirstWins ==
    chartPc = "memo" =>
        \A day \in DayLabels(data) :
            NonNullTemps(data, day) # {} =>
                LET tiedMax == TiedAt(data, day, SetMax(NonNullTemps(data, day)))
                    tiedMin == TiedAt(data, day, SetMin(NonNullTemps(data, day)))
                IN  /\ Cardinality(tiedMax) >= 2 =>
                          \A i \in tiedMax : chartData[i].isHigh <=> i = SetMin(tiedMax)
                    /\ Cardinality(tiedMin) >= 2 =>
                          \A i \in tiedMin : chartData[i].isLow <=> i = SetMin(tiedMin)

\* C3: extrema ignore null temperatures: a flagged sample has the maximum
\* (minimum) of the non-null temperatures of its day, the day's high and low
\* are computed over the non-null temperatures only (null is not counted as
\* 0), and a day without a non-null temperature gets no flag.
C3_ExtremaIgnoreNull ==
    chartPc = "memo" =>
        \A day \in DayLabels(data) :
            IF NonNullTemps(data, day) = {}
            THEN HighsOfDay(day) = {} /\ LowsOfDay(day) = {}
            ELSE /\ \A i \in HighsOfDay(day) :
                        data[i].temperature = Num(SetMax(NonNullTemps(data, day)))
                 /\ \A i \in LowsOfDay(day) :
                        data[i].temperature = Num(SetMin(NonNullTemps(data, day)))
                 /\ highTemp(data, day) = Num(SetMax(NonNullTemps(data, day)))
                 /\ lowTemp(data, day) = Num(SetMin(NonNullTemps(data, day)))

----
(* Claims about the service operations (SpecService) *)

\* the condition code weatherIcons.ts maps to the alert icon
ErrorMarker == "some-error"

RealConditions == DOMAIN conditionMap \ {ErrorMarker}

ForecastRequestFailed(http) ==
    \/ AxiosRejects(http)
    \/ ~HasWeather(http.body)
    \/ Len(http.body.weather) = 0

CurrentRequestFailed(http) ==
    \/ AxiosRejects(http)
    \/ ~HasWeather(http.body)

\* C4: when the forecast request fails or answers without a non-empty weather
\* array, getWeatherForecast returns 24 samples at now, now+1h, ..., now+23h,
\* each with the error-marker condition and precipitationProbability 0.
C4_ForecastFallback ==
    (fcCall # Idle /\ ForecastRequestFailed(fcCall.http)) =>
        /\ fcCall.result.state = "fulfilled"
        /\ Len(fcCall.result.value) = 24
        /\ \A k \in 1..Len(fcCall.result.value) :
              /\ fcCall.result.value[k].timestamp = fcCall.at + (k - 1)
              /\ fcCall.result.value[k].condition = ErrorMarker
              /\ fcCall.result.value[k].condition \notin RealConditions
              /\ fcCall.result.value[k].precipitationProbability = Num(0)

\* C5: when the current-conditions request fails or answers without the
\* weather field, getCurrentWeather returns the sentinel record: the
\* error-marker condition code and temperature 0.
C5_CurrentFallback ==
    (curCall # Idle /\ CurrentRequestFailed(curCall.http)) =>
        /\ curCall.result.state = "fulfilled"
        /\ curCall.result.value.condition = ErrorMarker
        /\ curCall.result.value.condition \notin RealConditions
        /\ curCall.result.value.temperature = Num(0)

\* a weather object / item that lacks a required field
CurrentLacksFields(w) == ~IsNumber(w.temperature) \/ w.condition = "" \/ w.icon = ""
ItemLacksFields(item) ==
    \/ ~IsNumber(item.temperature)
    \/ item.condition = ""
    \/ ~IsNumber(item.precipitation_probability)

CurrentFailureOutcome(http) ==
    \/ CurrentRequestFailed(http)
    \/ CurrentLacksFields(http.body.weather)

ForecastFailureOutcome(http) ==
    \/ ForecastRequestFailed(http)
    \/ \E k \in DOMAIN http.body.weather : ItemLacksFields(http.body.weather[k])

\* C6: fail closed: for every answer of the HTTP call both operations resolve
\* (never reject), and every failure outcome (transport error, non-2xx,
\* no weather field, empty weather array, payload missing required fields)
\* yields the value a transport failure yields.
C6_FailClosed ==
    /\ curCall # Idle =>
          /\ curCall.result.state = "fulfilled"
          /\ CurrentFailureOutcome(curCall.http) =>
                curCall.result =
                    getCurrentWeather(HttpFailure("network_error"), curCall.at)
    /\ fcCall # Idle =>
          /\ fcCall.result.state = "fulfilled"
          /\ ForecastFailureOutcome(fcCall.http) =>
                fcCall.result =
                    getWeatherForecast(HttpFailure("network_error"), fcCall.at)

----
(* Claims about the widget (Spec) *)

\* C7: after a fetch cycle whose current-conditions call failed, the widget
\* shows the alert icon and the error text, never those of a real condition.
C7_SentinelVisible ==
    (resumed.curHttp = "network_error" /\ cycles = <<>> /\ mounted = "yes") =>
        /\ ShownIcon = conditionMap[ErrorMarker]
        /\ ShownDescription = descriptions[ErrorMarker]

\* C8: at most one fetch cycle is in flight at any time.
C8_SingleFlight == Cardinality(DOMAIN cycles) <= 1

\* C9: the displayed-data slot is written only after both calls of a cycle
\* have completed: currentWeather and forecast always come from the same
\* invocation, and never from one that still awaits a call.
C9_JoinBarrier ==
    /\ slotCycle.currentWeather = slotCycle.forecast
    /\ \A c \in DOMAIN cycles :
          c \notin {slotCycle.currentWeather, slotCycle.forecast}
    /\ slotCycle.currentWeather # 0 =>
          currentWeather # NoWeather /\ Len(forecast) > 0

\* a later invocation has one call answered and the other pending while the
\* data of an earlier invocation is in the slot, unchanged
C9_Witness ==
    \E c \in DOMAIN cycles :
        /\ cycles[c].cur.state = "fulfilled"
        /\ cycles[c].fc.state = "pending"
        /\ slotCycle.currentWeather \in 1..(c - 1)
        /\ currentWeather # cycles[c].cur.value

\* C10: once data has been displayed, no refresh in flight replaces it by
\* the loading placeholder.
C10_StaleDataStaysVisible ==
    slotCycle.forecast # 0 => View # "placeholder"

\* C11: a cycle that is pending when the widget is unmounted performs no
\* state write afterwards (no setCurrentWeather, setForecast, setError or
\* setLoading after teardown).
C11_NoWriteAfterUnmount == resumed.mounted # "gone"

----
(* Claims about the "Now" pointer and the precipitation row *)

SamplesOfToday == {i \in DOMAIN data : formatBerlinDay(data[i].timestamp) = formatBerlinDay(now)}

\* C12: the pointer is the timestamp of a sample whose local day label is
\* that of now or, when there is no such sample, the instant now itself; it
\* is never the timestamp of a sample of another day.
C12_PointerLocality ==
    chartView = "chart" =>
        IF SamplesOfToday = {} THEN closestTimestamp = Num(now)
        ELSE \E i \in SamplesOfToday : closestTimestamp = Num(data[i].timestamp)

\* the pointer is a sample of today although a sample of another day is as near
C12_Witness ==
    /\ chartView = "chart"
    /\ \E i \in SamplesOfToday : \E j \in DOMAIN data \ SamplesOfToday :
          /\ closestTimestamp = Num(data[i].timestamp)
          /\ data[i].timestamp # now
          /\ Abs(data[j].timestamp - now) <= Abs(data[i].timestamp - now)

\* the samples the rule of C13 calls past
PastByRule ==
    {i \in SamplesOfToday : data[i].timestamp < closestTimestamp.val}

\* the 0-based indices of a block, as positions of data
BlockSamples(info) == {info.indices[k] + 1 : k \in DOMAIN info.indices}

\* C13: a sample is treated as past, by the bar row and by the block row,
\* exactly when its local day label is that of now and its timestamp is
\* strictly earlier than the pointer; when no sample is of the current local
\* day the pointer is now and no sample is treated as past.
C13_IsPastRule ==
    chartView = "chart" =>
        /\ \A i \in DOMAIN data : precip.bars[i].isPast <=> i \in PastByRule
        /\ \A b \in DOMAIN precip.blocks :
              precip.blocks[b].hasPrecip <=>
                  \E i \in BlockSamples(precip.blocks[b]) :
                      IF i \in PastByRule
                      THEN Gt(NullishOr(data[i].precipitation, Num(0)), 0)
                      ELSE Ge(data[i].precipitationProbability, 5)
        /\ SamplesOfToday = {} =>
              /\ closestTimestamp = Num(now)
              /\ \A i \in DOMAIN data : ~precip.bars[i].isPast

\* a sample of today before the pointer, the sample under the pointer, and a
\* sample of another day
C13_Witness ==
    /\ chartView = "chart"
    /\ \E i, j \in SamplesOfToday :
          /\ precip.bars[i].isPast
          /\ closestTimestamp = Num(data[j].timestamp)
          /\ ~precip.bars[j].isPast
    /\ DOMAIN data \ SamplesOfToday # {}

\* the block entry that holds sample i
BlockOf(i) ==
    CHOOSE b \in DOMAIN precip.blocks : i \in BlockSamples(precip.blocks[b])

\* C14: a sample that is not past is active exactly when its
\* precipitationProbability is at least 5: its bar is shown and its block's
\* indicator is set; 5 is active, 4 is not, and the bar row and the block row
\* agree on every block without past samples.
C14_ThresholdBoundary ==
    chartView = "chart" =>
        /\ \A i \in DOMAIN data : ~precip.bars[i].isPast =>
              /\ precip.bars[i].showFutureBar <=> Ge(data[i].precipitationProbability, 5)
              /\ precip.bars[i].element # "none" <=> Ge(data[i].precipitationProbability, 5)
              /\ Ge(data[i].precipitationProbability, 5) =>
                    precip.blocks[BlockOf(i)].hasPrecip
        /\ \A b \in DOMAIN precip.blocks :
              (\A i \in BlockSamples(precip.blocks[b]) : ~precip.bars[i].isPast) =>
                  (precip.blocks[b].hasPrecip <=>
                      \E i \in BlockSamples(precip.blocks[b]) : precip.bars[i].showFutureBar)

\* two samples that are not past, one at 5 percent with its bar and its
\* block's indicator, one at 4 percent alone in its block with neither
C14_Witness ==
    /\ chartView = "chart"
    /\ \E i, j \in DOMAIN data :
          /\ ~precip.bars[i].isPast /\ ~precip.bars[j].isPast
          /\ data[i].precipitationProbability = Num(5)
          /\ precip.bars[i].element = "bar"
          /\ precip.blocks[BlockOf(i)].hasPrecip
          /\ data[j].precipitationProbability = Num(4)
          /\ precip.bars[j].element = "none"
          /\ BlockSamples(precip.blocks[BlockOf(j)]) = {j}
          /\ ~precip.blocks[BlockOf(j)].hasPrecip

\* C15: for forecast data as it flows from getWeatherForecast through the
\* enrichment into PrecipitationChart, a past sample is active (its bar is
\* shown and its block's indicator is set) exactly when the provider's
\* observed amount for that hour is above 0, whatever its probability.
C15_PastUsesObservedAmount ==
    (chartView = "chart" /\ Len(raw) > 0) =>
        \A i \in DOMAIN raw : precip.bars[i].isPast =>
            /\ precip.bars[i].element # "none" <=> Gt(ToNumber(raw[i].precipitation), 0)
            /\ Gt(ToNumber(raw[i].precipitation), 0) =>
                  precip.blocks[BlockOf(i)].hasPrecip

LocalHour(i) == parseInt(formatBerlinTime(data[i].timestamp, "H"))

\* the blocks [s, s + w) with s in from cover the hours 0..23 once each
Tiles(from, w) ==
    \A h \in 0..23 : Cardinality({st \in from : st <= h /\ h < st + w}) = 1

IconsOfBlock(b) ==
    {k \in DOMAIN precip.icons :
        precip.icons[k].middleIdx + 1 \in BlockSamples(precip.blocks[b])}

\* C17: a block's indicator is true exactly when at least one of its samples
\* is active; a block whose indicator is true has exactly one glyph and the
\* other blocks have none; the glyph is anchored at element floor(n / 2) of
\* the block's n sample indices, an index of a sample of that block.
C17_BlockIndicator ==
    chartView = "chart" =>
        /\ \A b \in DOMAIN precip.blocks :
              /\ precip.blocks[b].hasPrecip <=>
                    \E i \in BlockSamples(precip.blocks[b]) :
                        precip.bars[i].showPastBar \/ precip.bars[i].showFutureBar
              /\ Cardinality(IconsOfBlock(b)) = IF precip.blocks[b].hasPrecip THEN 1 ELSE 0
              /\ \A k \in IconsOfBlock(b) :
                    precip.icons[k].middleIdx =
                        precip.blocks[b].indices[(Len(precip.blocks[b].indices) \div 2) + 1]
        /\ \A k \in DOMAIN precip.icons : \E b \in DOMAIN precip.blocks : k \in IconsOfBlock(b)

\* a block of two samples, only the first of them active, with its glyph at
\* the second, and a block without an active sample and without a glyph
C17_Witness ==
    /\ chartView = "chart"
    /\ \E b, c \in DOMAIN precip.blocks :
          /\ Len(precip.blocks[b].indices) = 2
          /\ precip.bars[precip.blocks[b].indices[1] + 1].element # "none"
          /\ precip.bars[precip.blocks[b].indices[2] + 1].element = "none"
          /\ \E k \in IconsOfBlock(b) :
                precip.icons[k].middleIdx = precip.blocks[b].indices[2]
          /\ ~precip.blocks[c].hasPrecip
          /\ IconsOfBlock(c) = {}

Larger(a, b) == IF a >= b THEN a ELSE b
Smaller(a, b) == IF a <= b THEN a ELSE b

PastBars == {i \in DOMAIN data : precip.bars[i].showPastBar}
FutureBars == {i \in DOMAIN data : precip.bars[i].showFutureBar}

\* C18: the bar of a past active sample is max(2, min(30, amount / 5 * 30))
\* pixels high and the bar of a future active sample max(2, probability /
\* 100 * 30) pixels; every such height lies in [2, 30], is 30 from 5 mm or at
\* 100 percent, and does not decrease when the amount or the probability
\* grows.  (Tenths: 6 * amount, 3 * probability, between 20 and 300.)
C18_BarHeight ==
    chartView = "chart" =>
        /\ \A i \in PastBars :
              /\ precip.bars[i].heightPx =
                    Num(Larger(20, Smaller(300, 6 * data[i].precipitation.val)))
              /\ data[i].precipitation.val >= 50 => precip.bars[i].heightPx = Num(300)
        /\ \A i \in FutureBars :
              /\ precip.bars[i].heightPx =
                    Num(Larger(20, 3 * data[i].precipitationProbability.val))
              /\ data[i].precipitationProbability.val = 100 =>
                    precip.bars[i].heightPx = Num(300)
        /\ \A i \in PastBars \cup FutureBars :
              /\ precip.bars[i].heightPx.tag = "number"
              /\ precip.bars[i].heightPx.val \in 20..300
        /\ \A i, j \in PastBars :
              data[i].precipitation.val <= data[j].precipitation.val =>
                  precip.bars[i].heightPx.val <= precip.bars[j].heightPx.val
        /\ \A i, j \in FutureBars :
              data[i].precipitationProbability.val <= data[j].precipitationProbability.val =>
                  precip.bars[i].heightPx.val <= precip.bars[j].heightPx.val

\* a past bar at the floor (0.1 mm), a past bar at the clamp (8 mm) and a
\* future bar at full height (100 percent)
C18_Witness ==
    /\ chartView = "chart"
    /\ \E i, j \in PastBars : \E k \in FutureBars :
          /\ data[i].precipitation = Num(1) /\ precip.bars[i].heightPx = Num(20)
          /\ data[j].precipitation = Num(80) /\ precip.bars[j].heightPx = Num(300)
          /\ data[k].precipitationProbability = Num(100)
          /\ precip.bars[k].heightPx = Num(300)
          /\ precip.bars[k].element = "bar"

\* C19: for an empty forecast the enrichment yields the empty sequence and
\* no tick marks; when the chart is not loading its body returns the "no
\* data" placeholder, computes no pointer and renders no precipitation row.
C19_EmptyInput ==
    (Len(data) = 0 /\ chartPc \in {"memo", "rendered"}) =>
        /\ chartData = <<>>
        /\ hourlyTicks = <<>>
        /\ closestTimestamp = Undefined
        /\ currentDay = ""
        /\ precip = NotRendered
        /\ (chartPc = "rendered" /\ chartView # "placeholder") => chartView = "no-data"

C19_Witness ==
    /\ Len(data) = 0
    /\ chartPc = "rendered"
    /\ chartView = "no-data"

\* C20: the enriched sequence is as long as the forecast and its i-th
\* element carries the timestamp, temperature, condition and
\* precipitationProbability of the i-th forecast sample; the forecast is as
\* long as the provider's non-empty answer, with the i-th record's timestamp
\* and temperature at position i: nothing is reordered, dropped or duplicated.
C20_OrderPreservation ==
    /\ chartPc \in {"memo", "rendered"} =>
          /\ Len(chartData) = Len(data)
          /\ \A i \in DOMAIN data :
                /\ chartData[i].timestamp = data[i].timestamp
                /\ chartData[i].temperature = data[i].temperature
                /\ chartData[i].condition = data[i].condition
                /\ chartData[i].precipitationProbability = data[i].precipitationProbability
    /\ (chartPc # "request" /\ Len(raw) > 0) =>
          /\ Len(data) = Len(raw)
          /\ \A i \in DOMAIN raw :
                /\ data[i].timestamp = raw[i].timestamp
                /\ data[i].temperature = raw[i].temperature
          /\ \A i, j \in DOMAIN data : i < j => data[i].timestamp < data[j].timestamp

\* three records of the provider, two of one day with equal temperatures, so
\* that the de-duplication cleared the flags of the later one
C20_Witness ==
    /\ chartPc = "rendered"
    /\ Len(raw) = 3
    /\ \E i, j \in DOMAIN chartData :
          /\ i < j
          /\ chartData[i].formattedDay = chartData[j].formattedDay
          /\ chartData[i].temperature = chartData[j].temperature
          /\ chartData[i].isHigh
          /\ ~chartData[j].isHigh

----
(* Claims about the pointer's choice, the ticks and the widget's cycles *)

\* C21: when some sample has the local day label of now, the pointer is the
\* timestamp of a sample of that day whose distance to now is minimal over
\* the samples of that day, and of two equally near samples the earlier one
\* in the sequence.
C21_PointerOptimality ==
    (chartView = "chart" /\ SamplesOfToday # {}) =>
        \E i \in SamplesOfToday :
            /\ closestTimestamp = Num(data[i].timestamp)
            /\ \A j \in SamplesOfToday :
                  /\ Abs(data[i].timestamp - now) <= Abs(data[j].timestamp - now)
                  /\ Abs(data[i].timestamp - now) = Abs(data[j].timestamp - now) => i <= j

\* two samples of today at the same distance of now, one before and one after
C21_Witness ==
    /\ chartView = "chart"
    /\ \E i, j \in SamplesOfToday :
          /\ i < j
          /\ data[i].timestamp < now /\ now < data[j].timestamp
          /\ now - data[i].timestamp = data[j].timestamp - now
          /\ closestTimestamp = Num(data[i].timestamp)

\* the indices of the samples that open a local day: the first sample of each
\* distinct day label of the sequence
DayOpeners ==
    {i \in DOMAIN data :
        \A j \in 1..(i - 1) :
            formatBerlinDay(data[j].timestamp) # formatBerlinDay(data[i].timestamp)}

\* C22: once the chart has its day-boundary marks, they are, in ascending order,
\* exactly the timestamps of the first sample of each distinct local day label
\* of the sequence, one per label, the first (possibly partial) day included
C22_DayTicks ==
    (chartView = "chart" \/ chartPc = "memo-earlier") =>
        /\ Len(dayTicks) = Cardinality(DayOpeners)
        /\ {dayTicks[k] : k \in DOMAIN dayTicks}
              = {data[i].timestamp : i \in DayOpeners}
        /\ \A k \in 1..(Len(dayTicks) - 1) : dayTicks[k] < dayTicks[k + 1]

\* C23: mounting starts one invocation at once and installs the periodic
\* timer; the timer is installed exactly while the widget is mounted, every
\* tick starts an invocation, and no tick starts one after the unmount
C23_TimerLifecycle ==
    /\ timer <=> mounted = "yes"
    /\ mounted = "no" <=> started = 0
    /\ Len(starts) = started
    /\ started > 0 => starts[1] = [by |-> "mount", mounted |-> "yes"]
    /\ \A k \in 2..Len(starts) : starts[k].by # "mount"
    /\ \A k \in DOMAIN starts : starts[k].by = "tick" => starts[k].mounted = "yes"
    /\ (timer /\ started < MaxStarted) => ENABLED TimerTick

\* a tick started an invocation while mounted, and the widget was unmounted
\* afterwards
C23_Witness ==
    /\ mounted = "gone"
    /\ ~timer
    /\ \E k \in DOMAIN starts : starts[k].by = "tick"

\* C24: whenever loading is false, forecast is a non-empty sequence and
\* currentWeather is not null; getWeatherForecast returns no empty sequence
\* and getCurrentWeather no null, whatever the answer (a failure, no body, no
\* weather field, an empty weather array, samples)
C24_DataWhenNotLoading ==
    /\ ~loading => (Len(forecast) > 0 /\ currentWeather # NoWeather)
    /\ \A http \in ForecastHttp :
          /\ getWeatherForecast(http, now).state = "fulfilled"
          /\ Len(getWeatherForecast(http, now).value) > 0
    /\ \A http \in CurrentHttp :
          /\ getCurrentWeather(http, now).state = "fulfilled"
          /\ getCurrentWeather(http, now).value # NoWeather

\* loading was cleared by an invocation whose forecast request failed: the
\* fallback forecast is displayed with the provider's current weather
C24_Witness ==
    /\ ~loading
    /\ resumed.fcHttp = "network_error"
    /\ resumed.curHttp = "ok"
    /\ forecast = generateFallbackForecast(now)
    /\ currentWeather # NoWeather

\* C25: when invocations overlapped and all of them have completed, the
\* displayed currentWeather and forecast are those of the invocation that was
\* started last
C25_LatestCycleWins ==
    (cycles = <<>> /\ started >= 2) =>
        /\ slotCycle.currentWeather = started
        /\ slotCycle.forecast = started

\* C26: while an invocation is pending, loading is true
C26_LoadingTracksPending ==
    cycles # <<>> => loading

\* the invocation that ran its continuation last wrote both values
WroteBoth(c) ==
    /\ resumed.cycle = c
    /\ slotCycle = [currentWeather |-> c, forecast |-> c]

\* what the two operations return for requests answered as the last
\* continuation's were
ReturnedCurrent ==
    {getCurrentWeather(http, now).value :
        http \in {h \in WidgetCurrentHttp : h.kind = resumed.curHttp}}
ReturnedForecast ==
    {getWeatherForecast(http, now).value :
        http \in {h \in WidgetForecastHttp : h.kind = resumed.fcHttp}}

\* C27: when every request is eventually answered, every started invocation
\* eventually writes currentWeather and forecast and sets loading to false;
\* what it writes is what each operation returned for its own answer, whether
\* or not the other request failed
C27_CycleCompletion ==
    /\ \A c \in 1..MaxStarted :
          (c \in DOMAIN cycles) ~> (WroteBoth(c) /\ ~loading)
    /\ [](\A c \in 1..MaxStarted :
            WroteBoth(c) => /\ currentWeather \in ReturnedCurrent
                            /\ forecast \in ReturnedForecast)

\* an invocation whose current-weather request failed wrote the fallback
\* object together with the forecast the provider returned
C27_Witness ==
    /\ \E c \in 1..MaxStarted : WroteBoth(c)
    /\ ~loading
    /\ resumed.curHttp = "network_error"
    /\ resumed.fcHttp = "ok"
    /\ currentWeather = createFallbackCurrentWeather(now)
    /\ forecast = getWeatherForecast(HttpOk(WithWeather(RainSeries)), now).value

\* the banner above the chart: {error && <div>{error}</div>}
ErrorBanner == IF error # "" THEN error ELSE ""

\* C28: the error state is null and the banner is not shown, whatever the
\* answers to the requests
C28_ErrorBannerUnreachable ==
    error = "" /\ ErrorBanner = ""

\* an invocation whose two requests both failed ran its continuation: the
\* catch branch was not taken
C28_Witness ==
    /\ resumed.curHttp = "network_error"
    /\ resumed.fcHttp = "network_error"
    /\ slotCycle.forecast = resumed.cycle
    /\ error = ""

\* C29: every sample treated as past, by its bar or by the rule, is strictly
\* earlier than now, also when the pointer is a sample later than now; no
\* sample at or after now is drawn from its observed amount
C29_PastIsBeforeNow ==
    chartView = "chart" =>
        /\ \A i \in PastByRule : data[i].timestamp < now
        /\ \A i \in DOMAIN data :
              (precip.bars[i].isPast \/ precip.bars[i].showPastBar) =>
                  data[i].timestamp < now

\* the pointer is a sample later than now and an earlier sample of the day is
\* drawn from its observed amount
C29_Witness ==
    /\ chartView = "chart"
    /\ closestTimestamp.val > now
    /\ \E i \in PastByRule : precip.bars[i].showPastBar

\* the points of chartData of one local day label that carry a flag
HighsOf(day) == {i \in DOMAIN chartData : chartData[i].formattedDay = day /\ chartData[i].isHigh}
LowsOf(day) == {i \in DOMAIN chartData : chartData[i].formattedDay = day /\ chartData[i].isLow}

\* C30: for every input, samples with null or missing temperatures and days
\* of equal temperatures included, chartData has at most one point with
\* isHigh and at most one with isLow per local day label, and isHighOrLow is
\* isHigh or isLow on every point
C30_OneLabelPerDay ==
    chartPc \in {"memo", "rendered"} =>
        /\ Len(chartData) = Len(data)
        /\ \A i \in DOMAIN chartData :
              /\ Cardinality(HighsOf(chartData[i].formattedDay)) <= 1
              /\ Cardinality(LowsOf(chartData[i].formattedDay)) <= 1
              /\ chartData[i].isHighOrLow <=> (chartData[i].isHigh \/ chartData[i].isLow)

\* a day with two samples of the same temperature and one without a
\* temperature: the first of the two carries the high, the second does not
C30_Witness ==
    /\ chartPc = "memo"
    /\ \E i, j, k \in DOMAIN chartData :
          /\ i < j
          /\ chartData[i].formattedDay = chartData[j].formattedDay
          /\ chartData[k].formattedDay = chartData[i].formattedDay
          /\ data[i].temperature.tag = "number"
          /\ data[i].temperature = data[j].temperature
          /\ data[k].temperature \in {Null, Undefined}
          /\ chartData[i].isHigh
          /\ ~chartData[j].isHigh

====
